---- MODULE Spec2Model ----
(***************************************************************************)
(* Model of gui/wxpython/rdigit/g.gui.rdigit.py: the standalone raster     *)
(* digitizer launcher.  main() parses the options, resolves the raster     *)
(* names in the current mapset, selects the rendering driver, builds the   *)
(* frame and the RDigitMapDisplay panel and enters the event loop.         *)
(* The statements of main() and of RDigitMapDisplay.__init__ are separate  *)
(* steps (variable pc) because the properties are about their order.       *)
(***************************************************************************)
EXTENDS Integers, Sequences, FiniteSets, TLC

\* ---------------------------------------------------------------- bounds
\* number of map-created notifications delivered in one run
MaxNotify == 2

\* ------------------------------------------------------- value universes
\* name of the current mapset, gs.gisenv()["MAPSET"]
MAPSET == "user1"

\* raster base names that occur in a run
RasterNames == {"a", "b"}

\* an option that was not given: the parser hands out the empty string
NoName == [name |-> "", mapset |-> ""]

\* a map name as typed by the user: plain (mapset "") or name@mapset
MapNames == {[name |-> n, mapset |-> m] : n \in RasterNames, m \in {"", MAPSET}}

OptionValues == {NoName} \cup MapNames

\* values of option type (G_OPT_R_TYPE, answer CELL)
MapTypes == {"CELL", "DCELL"}

\* values of the user setting display/driver/type
DriverSettings == {"png", "cairo", "ps"}

\* values of GRASS_RENDER_IMMEDIATE before the program starts
EnvValues == {"unset", "png", "cairo"}

\* layer types a map-created notification can carry
LayerTypes == {"raster", "vector"}

\* Python truth value of a map name string
Truthy(n) == n.name # ""

\* Python "x or y"
Or(x, y) == IF Truthy(x) THEN x ELSE y

VARIABLES
    options,        \* options dict returned by gs.parser()
    overwrite,      \* the run allows overwriting existing maps (--overwrite)
    rasters,        \* base names of the rasters of the current mapset
    driver,         \* UserSettings display/driver/type
    env,            \* os.environ["GRASS_RENDER_IMMEDIATE"]
    pc,             \* position of main()
    kwargs,         \* kwargs dict of main()
    windowCreated,  \* wx.Frame has been constructed
    windowShown,    \* frame.Show() has been called
    windowClosed,   \* the frame has been closed
    layers,         \* layer list of the map object (self._mapObj)
    comboHandlers,  \* handlers bound to EVT_COMBOBOX of _mapSelectionCombo
    quitHandlers,   \* handlers connected to rdigit.quitDigitizer
    mapCreatedHandlers, \* handlers connected to giface.mapCreated
    closeBound,     \* EVT_CLOSE of the parent frame is bound to OnCloseWindow
    selectNewCalls, \* SelectNewMap invocations: arguments and combo binding
    notifications,  \* map-created notifications delivered so far
    calls           \* collaborator calls in the order they were made

vars == <<options, overwrite, rasters, driver, env, pc, kwargs, windowCreated,
          windowShown, windowClosed, layers, comboHandlers, quitHandlers,
          mapCreatedHandlers, closeBound, selectNewCalls, notifications,
          calls>>

\* ------------------------------------------------------ option rules
\* "exclusive: create, edit": at most one of the two is given
RuleExclusive_NoCheck(o) == TRUE
RuleExclusive(o) == ~(Truthy(o.create) /\ Truthy(o.edit))

\* "required: create, edit": at least one of the two is given
RuleRequired(o) == Truthy(o.create) \/ Truthy(o.edit)

\* "requires: base, create": if base is given, create must be given
RuleRequires_NoCheck(o) == TRUE
RuleRequires(o) == Truthy(o.base) => Truthy(o.create)

RulesOK(o) == RuleExclusive(o) /\ RuleRequired(o) /\ RuleRequires(o)

\* ------------------------------------------------------ raster lookup
\* gs.find_file(name, element="raster", mapset=MAPSET)["fullname"]:
\* the fully qualified name name@MAPSET when the raster is in the current
\* mapset, the empty string otherwise
find_file(n, rs) ==
    IF n.name \in rs /\ n.mapset \in {"", MAPSET}
    THEN [name |-> n.name, mapset |-> MAPSET]
    ELSE NoName

\* ------------------------------------------------------ map object
\* the layer descriptor handed to Map.AddLayer by _addLayer
Layer(n, lt) ==
    [name |-> n, ltype |-> lt,
     command |-> [prog |-> "d.rast", map |-> n],
     active |-> TRUE, hidden |-> FALSE, render |-> TRUE]

\* RDigitMapDisplay._addLayer: Map.AddLayer appends one layer
addLayer(ls, n, lt) == Append(ls, Layer(n, lt))

\* Map.Clean: removes every layer
Clean(ls) == << >>

\* RDigitMapDisplay.OnMapCreated(name, ltype): the new layer list and the
\* calls made, given the layer list and the call log before
OnMapCreated_NoClean(ls, cs, n, lt) ==
    [layers |-> addLayer(ls, n, lt),
     calls  |-> cs \o <<"Map.AddLayer", "UpdateMap">>]
OnMapCreated(ls, cs, n, lt) ==
    [layers |-> addLayer(Clean(ls), n, lt),
     calls  |-> cs \o <<"Map.Clean", "Map.AddLayer", "UpdateMap">>]

\* ------------------------------------------------------------- Init
Init ==
    /\ options \in [create : OptionValues, base : OptionValues,
                    edit : OptionValues, type : MapTypes]
    /\ overwrite \in BOOLEAN
    /\ rasters \in SUBSET RasterNames
    /\ driver \in DriverSettings
    /\ env \in EnvValues
    /\ pc = "parser"
    /\ kwargs = [new_map |-> NoName, base_map |-> NoName,
                 edit_map |-> NoName, map_type |-> "CELL"]
    /\ windowCreated = FALSE
    /\ windowShown = FALSE
    /\ windowClosed = FALSE
    /\ layers = << >>
    /\ comboHandlers = {}
    /\ quitHandlers = {}
    /\ mapCreatedHandlers = {}
    /\ closeBound = FALSE
    /\ selectNewCalls = << >>
    /\ notifications = << >>
    /\ calls = << >>

\* ------------------------------------------------------------- main()
\* option create is a G_OPT_R_OUTPUT: the parser rejects the name of a new
\* map that already exists in the current mapset unless overwriting is
\* allowed
OverwriteOK(o, rs, ow) ==
    Truthy(o.create) => (ow \/ ~Truthy(find_file(o.create, rs)))

\* the parser accepts the command line
ParserAccepts(o, rs, ow) == RulesOK(o) /\ OverwriteOK(o, rs, ow)

\* options, flags = gs.parser(): the rules and the new map name are
\* checked, a violation ends the process
Parser ==
    /\ pc = "parser"
    /\ pc' = IF ParserAccepts(options, rasters, overwrite)
             THEN "kwargs" ELSE "parser_error"
    /\ UNCHANGED <<options, overwrite, rasters, driver, env, kwargs, windowCreated,
                   windowShown, windowClosed, layers, comboHandlers,
                   quitHandlers, mapCreatedHandlers, closeBound,
                   selectNewCalls, notifications, calls>>

\* kwargs = {...}; mapset = gs.gisenv()["MAPSET"]
BuildKwargs ==
    /\ pc = "kwargs"
    /\ kwargs' = [new_map |-> options.create, base_map |-> options.base,
                  edit_map |-> options.edit, map_type |-> options.type]
    /\ pc' = "resolve"
    /\ UNCHANGED <<options, overwrite, rasters, driver, env, windowCreated,
                   windowShown, windowClosed, layers, comboHandlers,
                   quitHandlers, mapCreatedHandlers, closeBound,
                   selectNewCalls, notifications, calls>>

\* if kwargs["edit_map"]: look the raster up, gs.fatal when not found
ResolveEdit_NoFatal ==
    /\ pc = "resolve"
    /\ Truthy(kwargs.edit_map)
    /\ kwargs' = [kwargs EXCEPT !.edit_map = find_file(kwargs.edit_map, rasters)]
    /\ pc' = "driver"
    /\ UNCHANGED <<options, overwrite, rasters, driver, env, windowCreated,
                   windowShown, windowClosed, layers, comboHandlers,
                   quitHandlers, mapCreatedHandlers, closeBound,
                   selectNewCalls, notifications, calls>>
ResolveEdit_KeepName ==
    /\ pc = "resolve"
    /\ Truthy(kwargs.edit_map)
    /\ LET edit_map == find_file(kwargs.edit_map, rasters)
       IN  /\ pc' = IF ~Truthy(edit_map) THEN "fatal" ELSE "driver"
           /\ kwargs' = kwargs
    /\ UNCHANGED <<options, overwrite, rasters, driver, env, windowCreated,
                   windowShown, windowClosed, layers, comboHandlers,
                   quitHandlers, mapCreatedHandlers, closeBound,
                   selectNewCalls, notifications, calls>>
ResolveEdit ==
    /\ pc = "resolve"
    /\ Truthy(kwargs.edit_map)
    /\ LET edit_map == find_file(kwargs.edit_map, rasters)
       IN  IF ~Truthy(edit_map)
           THEN /\ pc' = "fatal"
                /\ kwargs' = kwargs
           ELSE /\ pc' = "driver"
                /\ kwargs' = [kwargs EXCEPT !.edit_map = edit_map]
    /\ UNCHANGED <<options, overwrite, rasters, driver, env, windowCreated,
                   windowShown, windowClosed, layers, comboHandlers,
                   quitHandlers, mapCreatedHandlers, closeBound,
                   selectNewCalls, notifications, calls>>

\* elif kwargs["base_map"]: look the raster up, gs.fatal when not found
ResolveBase_NoFatal ==
    /\ pc = "resolve"
    /\ ~Truthy(kwargs.edit_map)
    /\ Truthy(kwargs.base_map)
    /\ kwargs' = [kwargs EXCEPT !.base_map = find_file(kwargs.base_map, rasters)]
    /\ pc' = "driver"
    /\ UNCHANGED <<options, overwrite, rasters, driver, env, windowCreated,
                   windowShown, windowClosed, layers, comboHandlers,
                   quitHandlers, mapCreatedHandlers, closeBound,
                   selectNewCalls, notifications, calls>>
ResolveBase ==
    /\ pc = "resolve"
    /\ ~Truthy(kwargs.edit_map)
    /\ Truthy(kwargs.base_map)
    /\ LET base_map == find_file(kwargs.base_map, rasters)
       IN  IF ~Truthy(base_map)
           THEN /\ pc' = "fatal"
                /\ kwargs' = kwargs
           ELSE /\ pc' = "driver"
                /\ kwargs' = [kwargs EXCEPT !.base_map = base_map]
    /\ UNCHANGED <<options, overwrite, rasters, driver, env, windowCreated,
                   windowShown, windowClosed, layers, comboHandlers,
                   quitHandlers, mapCreatedHandlers, closeBound,
                   selectNewCalls, notifications, calls>>

\* neither branch of the if/elif is taken
ResolveNothing ==
    /\ pc = "resolve"
    /\ ~Truthy(kwargs.edit_map)
    /\ ~Truthy(kwargs.base_map)
    /\ pc' = "driver"
    /\ UNCHANGED <<options, overwrite, rasters, driver, env, kwargs, windowCreated,
                   windowShown, windowClosed, layers, comboHandlers,
                   quitHandlers, mapCreatedHandlers, closeBound,
                   selectNewCalls, notifications, calls>>

\* driver = UserSettings.Get(...); os.environ["GRASS_RENDER_IMMEDIATE"] = ...
SetRenderDriver_Swapped ==
    /\ pc = "driver"
    /\ env' = IF driver = "png" THEN "cairo" ELSE "png"
    /\ pc' = "frame"
    /\ UNCHANGED <<options, overwrite, rasters, driver, kwargs, windowCreated,
                   windowShown, windowClosed, layers, comboHandlers,
                   quitHandlers, mapCreatedHandlers, closeBound,
                   selectNewCalls, notifications, calls>>
SetRenderDriver ==
    /\ pc = "driver"
    /\ env' = IF driver = "png" THEN "png" ELSE "cairo"
    /\ pc' = "frame"
    /\ UNCHANGED <<options, overwrite, rasters, driver, kwargs, windowCreated,
                   windowShown, windowClosed, layers, comboHandlers,
                   quitHandlers, mapCreatedHandlers, closeBound,
                   selectNewCalls, notifications, calls>>

\* app = wx.App(); frame = wx.Frame(...)
CreateFrame ==
    /\ pc = "frame"
    /\ windowCreated' = TRUE
    /\ pc' = "init"
    /\ UNCHANGED <<options, overwrite, rasters, driver, env, kwargs, windowShown,
                   windowClosed, layers, comboHandlers, quitHandlers,
                   mapCreatedHandlers, closeBound, selectNewCalls,
                   notifications, calls>>

\* ----------------------------------------- RDigitMapDisplay.__init__
\* MapPanel.__init__, icon, parent.Bind(wx.EVT_CLOSE, self.OnCloseWindow),
\* shortcuts, giface.mapCreated.connect(self.OnMapCreated), GetMap()
InitPanel ==
    /\ pc = "init"
    /\ closeBound' = TRUE
    /\ mapCreatedHandlers' = mapCreatedHandlers \cup {"OnMapCreated"}
    /\ pc' = "addLayer"
    /\ UNCHANGED <<options, overwrite, rasters, driver, env, kwargs, windowCreated,
                   windowShown, windowClosed, layers, comboHandlers,
                   quitHandlers, selectNewCalls, notifications, calls>>

\* self._addLayer(name=new_map or edit_map)
InitAddLayer ==
    /\ pc = "addLayer"
    /\ layers' = addLayer(layers, Or(kwargs.new_map, kwargs.edit_map), "raster")
    /\ calls' = Append(calls, "Map.AddLayer")
    /\ pc' = "addToolbar"
    /\ UNCHANGED <<options, overwrite, rasters, driver, env, kwargs, windowCreated,
                   windowShown, windowClosed, comboHandlers, quitHandlers,
                   mapCreatedHandlers, closeBound, selectNewCalls,
                   notifications>>

\* self.AddToolbar("rdigit", fixed=True): the toolbar binds its combo box
\* to OnMapSelection and the panel connects quitDigitizer to QuitRDigit
InitAddToolbar ==
    /\ pc = "addToolbar"
    /\ comboHandlers' = {"OnMapSelection"}
    /\ quitHandlers' = {"QuitRDigit"}
    /\ calls' = Append(calls, "AddToolbar")
    /\ pc' = "switch"
    /\ UNCHANGED <<options, overwrite, rasters, driver, env, kwargs, windowCreated,
                   windowShown, windowClosed, layers, mapCreatedHandlers,
                   closeBound, selectNewCalls, notifications>>

\* if new_map: rdigit._mapSelectionCombo.Unbind(wx.EVT_COMBOBOX)
InitUnbind_Skip ==
    /\ pc = "switch"
    /\ Truthy(kwargs.new_map)
    /\ calls' = Append(calls, "Unbind")
    /\ pc' = "unbound"
    /\ UNCHANGED <<options, overwrite, rasters, driver, env, kwargs, windowCreated,
                   windowShown, windowClosed, layers, comboHandlers,
                   quitHandlers, mapCreatedHandlers, closeBound,
                   selectNewCalls, notifications>>
InitUnbind ==
    /\ pc = "switch"
    /\ Truthy(kwargs.new_map)
    /\ comboHandlers' = {}
    /\ calls' = Append(calls, "Unbind")
    /\ pc' = "unbound"
    /\ UNCHANGED <<options, overwrite, rasters, driver, env, kwargs, windowCreated,
                   windowShown, windowClosed, layers, quitHandlers,
                   mapCreatedHandlers, closeBound, selectNewCalls,
                   notifications>>

\* self.rdigit.SelectNewMap(standalone=True, mapName=new_map,
\* bgMap=base_map, mapType=map_type): the digitizer creates the raster in
\* the current mapset; it may announce it through giface.mapCreated, which
\* runs the connected OnMapCreated
InitSelectNewMap ==
    /\ pc = "unbound"
    /\ selectNewCalls' = Append(selectNewCalls,
           [standalone |-> TRUE, mapName |-> kwargs.new_map,
            bgMap |-> kwargs.base_map, mapType |-> kwargs.map_type,
            comboHandlers |-> comboHandlers])
    /\ rasters' = rasters \cup {kwargs.new_map.name}
    /\ \E emit \in BOOLEAN :
          IF emit /\ "OnMapCreated" \in mapCreatedHandlers
          THEN LET created == [name |-> kwargs.new_map.name, mapset |-> MAPSET]
                   r == OnMapCreated(layers, Append(calls, "SelectNewMap"),
                                     created, "raster")
               IN  /\ layers' = r.layers
                   /\ calls' = r.calls
                   /\ notifications' = Append(notifications,
                                              [name |-> created, ltype |-> "raster"])
          ELSE /\ layers' = layers
               /\ calls' = Append(calls, "SelectNewMap")
               /\ notifications' = notifications
    /\ pc' = "selected"
    /\ UNCHANGED <<options, overwrite, driver, env, kwargs, windowCreated, windowShown,
                   windowClosed, comboHandlers, quitHandlers,
                   mapCreatedHandlers, closeBound>>

\* rdigit._mapSelectionCombo.Bind(wx.EVT_COMBOBOX, rdigit.OnMapSelection)
InitBind ==
    /\ pc = "selected"
    /\ comboHandlers' = comboHandlers \cup {"OnMapSelection"}
    /\ calls' = Append(calls, "Bind")
    /\ pc' = "rewire"
    /\ UNCHANGED <<options, overwrite, rasters, driver, env, kwargs, windowCreated,
                   windowShown, windowClosed, layers, quitHandlers,
                   mapCreatedHandlers, closeBound, selectNewCalls,
                   notifications>>

\* else: rdigit._mapSelectionCombo.SetSelection(n=1); rdigit.OnMapSelection()
InitSelectOld ==
    /\ pc = "switch"
    /\ ~Truthy(kwargs.new_map)
    /\ calls' = calls \o <<"SetSelection", "OnMapSelection">>
    /\ pc' = "rewire"
    /\ UNCHANGED <<options, overwrite, rasters, driver, env, kwargs, windowCreated,
                   windowShown, windowClosed, layers, comboHandlers,
                   quitHandlers, mapCreatedHandlers, closeBound,
                   selectNewCalls, notifications>>

\* self.rdigit.quitDigitizer.disconnect(self.QuitRDigit)
\* self.rdigit.quitDigitizer.connect(lambda: self.Close())
InitQuitRewire_NoDisconnect ==
    /\ pc = "rewire"
    /\ quitHandlers' = quitHandlers \cup {"Close"}
    /\ pc' = "layout"
    /\ UNCHANGED <<options, overwrite, rasters, driver, env, kwargs, windowCreated,
                   windowShown, windowClosed, layers, comboHandlers,
                   mapCreatedHandlers, closeBound, selectNewCalls,
                   notifications, calls>>
InitQuitRewire ==
    /\ pc = "rewire"
    /\ quitHandlers' = (quitHandlers \ {"QuitRDigit"}) \cup {"Close"}
    /\ pc' = "layout"
    /\ UNCHANGED <<options, overwrite, rasters, driver, env, kwargs, windowCreated,
                   windowShown, windowClosed, layers, comboHandlers,
                   mapCreatedHandlers, closeBound, selectNewCalls,
                   notifications, calls>>

\* sizer, parent.SetSizer, parent.Layout: __init__ returns
InitLayout ==
    /\ pc = "layout"
    /\ pc' = "show"
    /\ UNCHANGED <<options, overwrite, rasters, driver, env, kwargs, windowCreated,
                   windowShown, windowClosed, layers, comboHandlers,
                   quitHandlers, mapCreatedHandlers, closeBound,
                   selectNewCalls, notifications, calls>>

\* frame.Show(); app.MainLoop()
Show ==
    /\ pc = "show"
    /\ windowShown' = TRUE
    /\ pc' = "loop"
    /\ UNCHANGED <<options, overwrite, rasters, driver, env, kwargs, windowCreated,
                   windowClosed, layers, comboHandlers, quitHandlers,
                   mapCreatedHandlers, closeBound, selectNewCalls,
                   notifications, calls>>

\* ------------------------------------------------------ event loop
\* the digitizer has created map n of type lt in the current mapset and
\* emits giface.mapCreated(name, ltype)
MapCreated(n, lt) ==
    /\ pc = "loop"
    /\ Len(notifications) < MaxNotify
    /\ rasters' = IF lt = "raster" THEN rasters \cup {n} ELSE rasters
    /\ LET created == [name |-> n, mapset |-> MAPSET]
           r == OnMapCreated(layers, calls, created, lt)
       IN  /\ notifications' = Append(notifications,
                                      [name |-> created, ltype |-> lt])
           /\ IF "OnMapCreated" \in mapCreatedHandlers
              THEN layers' = r.layers /\ calls' = r.calls
              ELSE layers' = layers /\ calls' = calls
    /\ UNCHANGED <<options, overwrite, driver, env, pc, kwargs, windowCreated,
                   windowShown, windowClosed, comboHandlers, quitHandlers,
                   mapCreatedHandlers, closeBound, selectNewCalls>>

\* the digitizer emits quitDigitizer: every connected handler runs;
\* self.Close() closes the frame: it fires EVT_CLOSE, which runs the bound
\* OnCloseWindow, and the event loop ends
QuitDigitizer ==
    /\ pc = "loop"
    /\ calls' = calls \o <<"quitDigitizer.emit">>
                      \o (IF "QuitRDigit" \in quitHandlers
                          THEN <<"QuitRDigit">> ELSE << >>)
                      \o (IF "Close" \in quitHandlers
                          THEN <<"Close">> ELSE << >>)
                      \o (IF "Close" \in quitHandlers /\ closeBound
                          THEN <<"OnCloseWindow">> ELSE << >>)
    /\ windowClosed' = ("Close" \in quitHandlers)
    /\ pc' = IF "Close" \in quitHandlers THEN "closed" ELSE "quit_embedded"
    /\ UNCHANGED <<options, overwrite, rasters, driver, env, kwargs, windowCreated,
                   windowShown, layers, comboHandlers, quitHandlers,
                   mapCreatedHandlers, closeBound, selectNewCalls,
                   notifications>>

\* the user closes the frame: EVT_CLOSE runs OnCloseWindow
CloseWindow ==
    /\ pc = "loop"
    /\ closeBound
    /\ windowClosed' = TRUE
    /\ calls' = Append(calls, "OnCloseWindow")
    /\ pc' = "closed"
    /\ UNCHANGED <<options, overwrite, rasters, driver, env, kwargs, windowCreated,
                   windowShown, layers, comboHandlers, quitHandlers,
                   mapCreatedHandlers, closeBound, selectNewCalls,
                   notifications>>

Next ==
    \/ Parser
    \/ BuildKwargs
    \/ ResolveEdit
    \/ ResolveBase
    \/ ResolveNothing
    \/ SetRenderDriver
    \/ CreateFrame
    \/ InitPanel
    \/ InitAddLayer
    \/ InitAddToolbar
    \/ InitUnbind
    \/ InitSelectNewMap
    \/ InitBind
    \/ InitSelectOld
    \/ InitQuitRewire
    \/ InitLayout
    \/ Show
    \/ \E n \in RasterNames, lt \in LayerTypes : MapCreated(n, lt)
    \/ QuitDigitizer
    \/ CloseWindow

Spec == Init /\ [][Next]_vars

\* ------------------------------------------------------ vocabulary
\* RDigitMapDisplay.__init__ has returned
Constructed == pc \in {"show", "loop", "closed", "quit_embedded"}

\* main() has not got past the raster lookup
BeforeWindow == pc \in {"parser", "parser_error", "kwargs", "resolve", "fatal"}

\* positions of a collaborator call in the call log
Positions(op) == {i \in DOMAIN calls : calls[i] = op}

\* the raster the option names is not found in the current mapset
NotFound(n) == Truthy(n) /\ ~Truthy(find_file(n, rasters))

\* ------------------------------------------------------ properties
\* C1: when create and edit are both set or both unset, option validation
\* fails: the run never gets past the parser, no window is constructed and
\* no layer is added; a window exists only if exactly one of them is set.
C1_ExactlyOneOfCreateEdit ==
    /\ (Truthy(options.create) = Truthy(options.edit)) =>
          /\ pc \in {"parser", "parser_error"}
          /\ ~windowCreated
          /\ layers = << >>
    /\ windowCreated => (Truthy(options.create) # Truthy(options.edit))

C1_Witness ==
    /\ pc = "parser_error"
    /\ Truthy(options.create)
    /\ Truthy(options.edit)

\* C2: when edit names a raster the lookup does not find, no window is
\* created and no layer is added in any state, and a run that passed
\* option validation stops in the fatal-error state.
C2_EditNotFoundIsFatal ==
    NotFound(options.edit) =>
        /\ ~windowCreated
        /\ ~windowShown
        /\ layers = << >>
        /\ BeforeWindow
        /\ RulesOK(options) => pc \in {"parser", "kwargs", "resolve", "fatal"}

C2_Witness ==
    /\ pc = "fatal"
    /\ NotFound(options.edit)
    /\ ~Truthy(options.create)

\* C3: when create is set and base names a raster the lookup does not
\* find, the run (once the parser has accepted the command line) stops in
\* the fatal-error state before a window is created,
\* and a base that was given never reaches the display constructor as the
\* empty name.
C3_BaseNotFoundIsFatal ==
    /\ (Truthy(options.create) /\ NotFound(options.base)) =>
          /\ ~windowCreated
          /\ layers = << >>
          /\ BeforeWindow
          /\ ParserAccepts(options, rasters, overwrite) =>
                pc \in {"parser", "kwargs", "resolve", "fatal"}
    /\ (Truthy(options.base) /\ ~BeforeWindow) => Truthy(kwargs.base_map)
    /\ \A i \in DOMAIN selectNewCalls :
          Truthy(options.base) => Truthy(selectNewCalls[i].bgMap)

C3_Witness ==
    /\ pc = "fatal"
    /\ Truthy(options.create)
    /\ NotFound(options.base)
    /\ ~Truthy(options.edit)

\* C4 as stated: a run with create set and base not set never constructs
\* a window.
C4_BaseRequiredWithCreate ==
    (Truthy(options.create) /\ ~Truthy(options.base)) => ~windowCreated

\* C4 amended: create is required whenever base is given: a run with base
\* set and create not set fails option validation and never constructs a
\* window, while a run with create set, base and edit not set is not
\* rejected by the option rules: it never stops in the fatal-error state
\* and the parser rejects it only when the new map name already exists and
\* overwriting is not allowed.
C4_CreateRequiredWithBase ==
    /\ (Truthy(options.base) /\ ~Truthy(options.create)) =>
          /\ pc \in {"parser", "parser_error"}
          /\ ~windowCreated
    /\ (Truthy(options.create) /\ ~Truthy(options.base)
            /\ ~Truthy(options.edit)) =>
          /\ RulesOK(options)
          /\ pc # "fatal"
          /\ pc = "parser_error" =>
                (~overwrite /\ Truthy(find_file(options.create, rasters)))

C4_Witness ==
    /\ pc = "parser_error"
    /\ Truthy(options.base)
    /\ ~Truthy(options.create)
    /\ Truthy(options.edit)

\* the edit-mode selection path was taken and the create-mode path was not
EditPathOnly ==
    /\ Cardinality(Positions("SetSelection")) = 1
    /\ \A i \in Positions("SetSelection") :
          i < Len(calls) /\ calls[i + 1] = "OnMapSelection"
    /\ Positions("SelectNewMap") = {}
    /\ selectNewCalls = << >>

\* C5 as stated: in edit mode construction adds exactly one layer, named
\* as the user typed the name, and takes the edit-mode selection path only.
C5_EditLayerNamedAsTyped ==
    (Truthy(options.edit) /\ ~Truthy(options.create) /\ Constructed
        /\ notifications = << >>) =>
        /\ layers = << Layer(options.edit, "raster") >>
        /\ Cardinality(Positions("Map.AddLayer")) = 1
        /\ EditPathOnly

\* C5 amended: in edit mode construction adds exactly one layer, named by
\* the fully qualified name (name@mapset) the lookup returned for the
\* raster, and takes the edit-mode selection path only.
C5_EditLayerNamedByFullname ==
    (Truthy(options.edit) /\ ~Truthy(options.create) /\ Constructed
        /\ notifications = << >>) =>
        /\ layers = << Layer(find_file(options.edit, rasters), "raster") >>
        /\ layers[1].name.mapset = MAPSET
        /\ Cardinality(Positions("Map.AddLayer")) = 1
        /\ EditPathOnly

C5_Witness ==
    /\ pc = "show"
    /\ Truthy(options.edit)
    /\ options.edit.mapset = ""
    /\ Len(layers) = 1
    /\ layers[1].name # options.edit

\* C6: in create mode SelectNewMap is called once, with standalone=True
\* and the given names and type, while no handler is bound to the combo
\* box; Unbind precedes the call, Bind follows it, and OnMapSelection is
\* bound when construction has finished.
C6_UnboundDuringSelectNewMap ==
    /\ \A i \in DOMAIN selectNewCalls :
          /\ selectNewCalls[i].standalone
          /\ selectNewCalls[i].comboHandlers = {}
    /\ pc = "unbound" => comboHandlers = {}
    /\ (Truthy(options.create) /\ Constructed) =>
          /\ Len(selectNewCalls) = 1
          /\ selectNewCalls[1].mapName = options.create
          /\ selectNewCalls[1].mapType = options.type
          /\ Cardinality(Positions("SelectNewMap")) = 1
          /\ \A s \in Positions("SelectNewMap") :
                /\ \E u \in Positions("Unbind") : u < s
                /\ \E b \in Positions("Bind") : s < b
                /\ \A u \in Positions("Unbind") : u < s
                /\ \A b \in Positions("Bind") : s < b
          /\ comboHandlers = {"OnMapSelection"}

C6_Witness ==
    /\ pc = "show"
    /\ Truthy(options.create)
    /\ Truthy(options.base)
    /\ Len(selectNewCalls) = 1
    /\ comboHandlers = {"OnMapSelection"}

\* C7: whenever the window is shown (indeed once it is constructed),
\* GRASS_RENDER_IMMEDIATE is "png" if the driver setting is "png" and
\* "cairo" for every other setting.
C7_RenderDriverSetBeforeShow ==
    (windowShown \/ windowCreated) =>
        env = (IF driver = "png" THEN "png" ELSE "cairo")

C7_Witness ==
    /\ windowShown
    /\ driver = "ps"
    /\ env = "cairo"

\* C8: once the display is constructed, Close is the only handler
\* connected to quitDigitizer; every emission of the signal is answered by
\* Close, which runs the window-close handler OnCloseWindow and leaves the
\* window closed, and QuitRDigit never runs.
C8_QuitClosesWindow ==
    /\ Constructed => quitHandlers = {"Close"}
    /\ Positions("QuitRDigit") = {}
    /\ \A i \in Positions("quitDigitizer.emit") :
          /\ i < Len(calls)
          /\ calls[i + 1] = "Close"
          /\ i + 2 <= Len(calls) /\ calls[i + 2] = "OnCloseWindow"
          /\ windowClosed

C8_Witness ==
    /\ Positions("quitDigitizer.emit") # {}
    /\ windowClosed
    /\ pc = "closed"
    /\ Truthy(options.create)

\* C9: after construction and any sequence of map-created notifications
\* the map object holds exactly one layer, that of the latest notification
\* (the initial layer when there was none); each handler run calls Clean,
\* AddLayer, UpdateMap in this order, so every AddLayer but the first
\* directly follows a Clean.
C9_SingleLayer ==
    Constructed =>
        /\ Len(layers) = 1
        /\ layers[1] =
              IF notifications = << >>
              THEN Layer(Or(kwargs.new_map, kwargs.edit_map), "raster")
              ELSE Layer(notifications[Len(notifications)].name,
                         notifications[Len(notifications)].ltype)
        /\ Cardinality(Positions("Map.Clean")) = Len(notifications)
        /\ Cardinality(Positions("Map.AddLayer")) = Len(notifications) + 1
        /\ \A i \in Positions("Map.Clean") :
              /\ i + 2 <= Len(calls)
              /\ calls[i + 1] = "Map.AddLayer"
              /\ calls[i + 2] = "UpdateMap"

C9_Witness ==
    /\ pc = "loop"
    /\ Len(notifications) >= 2
    /\ notifications[1].name # notifications[2].name
    /\ Len(layers) = 1
    /\ layers[1].name = notifications[Len(notifications)].name

\* C10: every raster layer of the map object names a raster that exists
\* in the current mapset (rasters are never removed, so a layer whose
\* raster is missing now was added while it was missing).
C10_LayersNameExistingRasters ==
    \A i \in DOMAIN layers :
        layers[i].ltype = "raster" =>
            /\ layers[i].name.name \in rasters
            /\ layers[i].name.mapset \in {"", MAPSET}
====
